---- MODULE Spec2Model ----
(***************************************************************************)
(* Model of the patron server handlers                                     *)
(*   crates/server/src/handlers/keys/delete.rs      (DELETE /keys)         *)
(*   crates/server/src/handlers/contracts/events.rs (GET /contracts/events)*)
(* The relational store is modelled as sets of rows; a handler is one      *)
(* action in Spec and SpecEvents, and one action per transaction step in   *)
(* SpecConcurrent.                                                         *)
(***************************************************************************)
EXTENDS Integers, Sequences, FiniteSets

VARIABLES
    public_keys,    \* committed rows of table public_key: [id, user_id, address]
    next_key_id,    \* next value of the public_key id sequence
    events,         \* rows of table event: [id, account, block_timestamp, body]
    req,            \* the operation that ran last: [op, user, account]
    resp,           \* what it answered: [status, body]
    db_fault,       \* the storage failure injected into it ("none" when storage worked)
    rows_affected,  \* DeleteResult.rows_affected of the last delete_many (discarded by the handler)
    picked,         \* the event rows the last events query streamed, in order
    prev,           \* req, status and rows_affected of the operation before the last one
    txn,            \* SpecConcurrent: per request its transaction
                    \*   [pc, user, account, pending, fault, result, overlap]
    obs,            \* SpecConcurrent: what the last read returned, and what was committed then
    init_keys       \* SpecConcurrent: the public_key table before any request

vars == <<public_keys, next_key_id, events, req, resp, db_fault, rows_affected,
          picked, prev, txn, obs, init_keys>>

-----------------------------------------------------------------------------
(* Bounds of the model *)

MaxKeys == 3            \* public_key rows ever inserted in Spec
MaxInitKeys == 2        \* public_key rows present initially in SpecConcurrent
MaxNewEvents == 2       \* events inserted on top of the initial load in SpecEvents
BaseLoad == 24          \* events of account Contract1 in the loaded initial table
TicksPerSecond == 2     \* resolution of stored timestamps (sub-second ticks per second)

UserIds == {1, 2}
Addresses == {"addr1", "addr2"}
Procs == {"p1", "p2"}
Contract1 == "acct1"
Contract2 == "acct2"
Accounts == {Contract1, Contract2}
Bodies == {"\"Instantiation\"", "\"Termination\""}

-----------------------------------------------------------------------------
(* Values at the HTTP boundary *)

\* The human-readable form of a 32-byte address.
Ss58Encode(a) == <<"ss58", a>>

\* PublicKeyDeletionRequest.account: the request body's text decoded to raw bytes.
Ss58Decode(s) == s[2]

NoReq == [op |-> "none", user |-> 0, account |-> Ss58Encode("-")]
NoResp == [result |-> "none", status |-> 0, body |-> <<>>]
NoPrev == [req |-> NoReq, status |-> 0, rows_affected |-> 0]

\* The HTTP status of a handler's Result: 200 for Ok, the derived ErrorResponse otherwise.
StatusOf(result) == IF result = "Ok" THEN 200 ELSE IF result = "NotFound" THEN 404 ELSE 500

\* The response of a handler returning Result<T, E>: the value's body, or the error's.
Respond(result, body) ==
    [result |-> result, status |-> StatusOf(result),
     body |-> IF result = "Ok" THEN body ELSE <<"error">>]

-----------------------------------------------------------------------------
(* DELETE /keys *)

MatchingAnyUser(rows, user, addr) == {r \in rows : r.address = addr}

MatchingUserOnly(rows, user, addr) == {r \in rows : r.user_id = user}

\* delete_many().filter(UserId.eq(current_user.id())).filter(Address.eq(account))
Matching(rows, user, addr) == {r \in rows : r.user_id = user /\ r.address = addr}

TxnOutcomeNoRollback(store, pending, fault) == store \ pending

\* db.transaction: commit when the closure returned Ok and the commit worked,
\* roll back otherwise.
TxnOutcome(store, pending, fault) == IF fault = "none" THEN store \ pending ELSE store

DeleteResultNotFound(fault, affected) ==
    IF fault # "none" THEN "DatabaseError"
    ELSE IF affected = 0 THEN "NotFound" ELSE "Ok"

\* The handler's Result<(), PublicKeyDeletionError>: rows_affected is not looked at.
DeleteResult(fault, affected) == IF fault = "none" THEN "Ok" ELSE "DatabaseError"

DeleteFaults == {"none", "begin", "exec", "commit"}

\* What the statement removed inside the transaction when fault hits:
\* nothing before begin, any part of the match when the statement itself fails,
\* the whole match otherwise.
PendingChoices(matched, fault) ==
    IF fault = "begin" THEN {{}}
    ELSE IF fault = "exec" THEN SUBSET matched
    ELSE {matched}

\* GET /keys: the rows of the identity in id order, as {id, address}.
RECURSIVE SeqById(_)
SeqById(S) ==
    IF S = {} THEN <<>>
    ELSE LET r == CHOOSE x \in S : \A y \in S : x.id <= y.id
         IN  <<r>> \o SeqById(S \ {r})

KeyItem(r) == [id |-> r.id, address |-> Ss58Encode(r.address)]

List(rows, user) ==
    LET owned == SeqById({r \in rows : r.user_id = user})
    IN  [i \in 1..Len(owned) |-> KeyItem(owned[i])]

\* What the operation before this step was, for the step's successor state.
Shift == [req |-> req, status |-> resp.status, rows_affected |-> rows_affected]

\* The linking flow (out of the handlers' scope), as the tests' create_test_env does it.
Link(user, addr) ==
    /\ next_key_id <= MaxKeys
    /\ public_keys' = public_keys \cup
            {[id |-> next_key_id, user_id |-> user, address |-> addr]}
    /\ next_key_id' = next_key_id + 1
    /\ req' = [op |-> "link", user |-> user, account |-> Ss58Encode(addr)]
    /\ resp' = NoResp
    /\ db_fault' = "none"
    /\ rows_affected' = 0
    /\ prev' = Shift
    /\ UNCHANGED <<events, picked, txn, obs, init_keys>>

\* The whole handler delete(current_user, db, request), storage failures included.
Delete(user, account, fault) ==
    LET matched == Matching(public_keys, user, Ss58Decode(account))
    IN  \E pending \in PendingChoices(matched, fault) :
            /\ public_keys' = TxnOutcome(public_keys, pending, fault)
            /\ rows_affected' = IF fault \in {"none", "commit"} THEN Cardinality(pending) ELSE 0
            /\ req' = [op |-> "delete", user |-> user, account |-> account]
            /\ resp' = Respond(DeleteResult(fault, Cardinality(pending)), <<>>)
            /\ db_fault' = fault
            /\ prev' = Shift
            /\ UNCHANGED <<next_key_id, events, picked, txn, obs, init_keys>>

ListKeys(user) ==
    /\ req' = [op |-> "list", user |-> user, account |-> Ss58Encode("-")]
    /\ resp' = Respond("Ok", List(public_keys, user))
    /\ db_fault' = "none"
    /\ rows_affected' = 0
    /\ prev' = Shift
    /\ UNCHANGED <<public_keys, next_key_id, events, picked, txn, obs, init_keys>>

NoTxn == [pc |-> "idle", user |-> 0, account |-> Ss58Encode("-"), pending |-> {},
          fault |-> "none", result |-> "none", overlap |-> {}]
NoObs == [kind |-> "none", user |-> 0, account |-> Ss58Encode("-"), body |-> <<>>,
          committed |-> {}]

Init ==
    /\ public_keys = {}
    /\ next_key_id = 1
    /\ events = {}
    /\ req = NoReq
    /\ resp = NoResp
    /\ db_fault = "none"
    /\ rows_affected = 0
    /\ picked = <<>>
    /\ prev = NoPrev
    /\ txn = [p \in Procs |-> NoTxn]
    /\ obs = NoObs
    /\ init_keys = {}

Next ==
    \/ \E u \in UserIds, a \in Addresses : Link(u, a)
    \/ \E u \in UserIds, a \in Addresses, f \in DeleteFaults : Delete(u, Ss58Encode(a), f)
    \/ \E u \in UserIds : ListKeys(u)

Spec == Init /\ [][Next]_vars

-----------------------------------------------------------------------------
(* GET /contracts/events/{account} *)

EventsLimit == 25

Min(a, b) == IF a < b THEN a ELSE b

\* date.assume_utc().unix_timestamp(): whole seconds, the sub-second part dropped.
UnixTimestamp(t) == t \div TicksPerSecond

\* .map_ok(|(body, date)| ContractEvent { body, timestamp })
ToContractEvent(r) == [body |-> r.body, timestamp |-> UnixTimestamp(r.block_timestamp)]

\* .filter(event::Column::Account.eq(account))
FilterAccount(rows, account) == {r \in rows : r.account = account}

RECURSIVE Perms(_)
Perms(S) ==
    IF S = {} THEN {<<>>}
    ELSE UNION {{<<x>> \o p : p \in Perms(S \ {x})} : x \in S}

RECURSIVE OrderByAscTs(_)
OrderByAscTs(S) ==
    IF S = {} THEN {<<>>}
    ELSE LET m == CHOOSE t \in {r.block_timestamp : r \in S} :
                      \A r \in S : r.block_timestamp >= t
             G == {r \in S : r.block_timestamp = m}
         IN  {p \o rest : p \in Perms(G), rest \in OrderByAscTs(S \ G)}

\* .order_by_desc(event::Column::BlockTimestamp): every order the store may
\* stream the rows in; rows of equal block_timestamp come in any order.
RECURSIVE OrderByDescTs(_)
OrderByDescTs(S) ==
    IF S = {} THEN {<<>>}
    ELSE LET m == CHOOSE t \in {r.block_timestamp : r \in S} :
                      \A r \in S : r.block_timestamp <= t
             G == {r \in S : r.block_timestamp = m}
         IN  {p \o rest : p \in Perms(G), rest \in OrderByDescTs(S \ G)}

LimitOffByOne(s, n) == SubSeq(s, 1, Min(Len(s), n + 1))

\* .limit(25)
Limit(s, n) == SubSeq(s, 1, Min(Len(s), n))

\* The row sequences the query may stream for account.
EventsQuery(rows, account) ==
    {Limit(s, EventsLimit) : s \in OrderByDescTs(FilterAccount(rows, account))}

EventsResultNotFound(fault, rows) ==
    IF fault # "none" THEN "DatabaseError"
    ELSE IF rows = <<>> THEN "NotFound" ELSE "Ok"

\* The handler's Result: Ok(Json(model)) unless stream() or try_collect() failed.
EventsResult(fault, rows) == IF fault = "none" THEN "Ok" ELSE "DatabaseError"

EventsFaults == {"none", "stream", "collect"}

\* The whole handler events(account, db).
Events(account, fault) ==
    \E s \in EventsQuery(events, Ss58Decode(account)) :
        /\ picked' = IF fault = "none" THEN s ELSE <<>>
        /\ req' = [op |-> "events", user |-> 0, account |-> account]
        /\ resp' = Respond(EventsResult(fault, s),
                           [i \in 1..Len(s) |-> ToContractEvent(s[i])])
        /\ db_fault' = fault
        /\ rows_affected' = 0
        /\ UNCHANGED <<public_keys, next_key_id, events, prev, txn, obs, init_keys>>

\* Block timestamps the indexer writes for new events: before every loaded
\* event, equal to the oldest loaded one, within the same second as it, and
\* after every loaded event.
NewTimestamps ==
    {0, TicksPerSecond, TicksPerSecond + 1, (BaseLoad + 5) * TicksPerSecond}

NewEvents(rows) == {r \in rows : r.id > BaseLoad}

\* The indexer's insert of one event row, as the tests' create_test_env does it.
InsertEvent(account, ts, body) ==
    /\ Cardinality(NewEvents(events)) < MaxNewEvents
    /\ events' = events \cup
            {[id |-> BaseLoad + 1 + Cardinality(NewEvents(events)),
              account |-> account, block_timestamp |-> ts, body |-> body]}
    /\ req' = [op |-> "insert_event", user |-> 0, account |-> Ss58Encode(account)]
    /\ resp' = NoResp
    /\ db_fault' = "none"
    /\ rows_affected' = 0
    /\ picked' = <<>>
    /\ UNCHANGED <<public_keys, next_key_id, prev, txn, obs, init_keys>>

\* An event table that already holds BaseLoad events of Contract1, one per second.
LoadedEvents ==
    {[id |-> i, account |-> Contract1, block_timestamp |-> i * TicksPerSecond,
      body |-> "\"Instantiation\""] : i \in 1..BaseLoad}

InitEvents ==
    /\ public_keys = {}
    /\ next_key_id = 1
    /\ events \in {{}, LoadedEvents}
    /\ req = NoReq
    /\ resp = NoResp
    /\ db_fault = "none"
    /\ rows_affected = 0
    /\ picked = <<>>
    /\ prev = NoPrev
    /\ txn = [p \in Procs |-> NoTxn]
    /\ obs = NoObs
    /\ init_keys = {}

NextEvents ==
    \/ \E a \in Accounts, t \in NewTimestamps, b \in Bodies : InsertEvent(a, t, b)
    \/ \E a \in Accounts, f \in EventsFaults : Events(Ss58Encode(a), f)

SpecEvents == InitEvents /\ [][NextEvents]_vars

-----------------------------------------------------------------------------
(* Concurrent requests: one DELETE /keys per process, a step per transaction *)
(* step, with reads in between                                              *)

InFlight(p) == txn[p].pc \in {"begun", "executed", "failed"}
Committed == {p \in Procs : txn[p].pc = "done" /\ txn[p].result = "Ok"}

VisibleDirty(store, txns) == store \ UNION {txns[p].pending : p \in DOMAIN txns}

\* What a statement reads: the committed rows, whatever open transactions hold.
Visible(store, txns) == store

\* Rows removed by the open transactions of other requests: locked until they end.
LockedByOthers(p) == UNION {txn[q].pending : q \in {x \in Procs \ {p} : InFlight(x)}}

\* db.transaction(...) begins a transaction for the request.
Begin(p, user, account) ==
    /\ txn[p].pc = "idle"
    /\ txn' = [txn EXCEPT ![p] = [NoTxn EXCEPT !.pc = "begun", !.user = user,
                                               !.account = account,
                                               !.overlap = {q \in Procs : InFlight(q)}]]
    /\ UNCHANGED <<public_keys, next_key_id, events, req, resp, db_fault,
                   rows_affected, picked, prev, obs, init_keys>>

\* The transaction cannot be begun: the handler returns the DbErr.
BeginFail(p, user, account) ==
    /\ txn[p].pc = "idle"
    /\ txn' = [txn EXCEPT ![p] = [NoTxn EXCEPT !.pc = "done", !.user = user,
                                               !.account = account, !.fault = "begin",
                                               !.result = DeleteResult("begin", 0)]]
    /\ UNCHANGED <<public_keys, next_key_id, events, req, resp, db_fault,
                   rows_affected, picked, prev, obs, init_keys>>

\* delete_many()...exec(txn): the statement removes the matching rows inside
\* the transaction; it waits while another open transaction holds one of them.
Exec(p) ==
    LET matched == Matching(Visible(public_keys, txn), txn[p].user,
                            Ss58Decode(txn[p].account))
    IN  /\ txn[p].pc = "begun"
        /\ matched \cap LockedByOthers(p) = {}
        /\ txn' = [txn EXCEPT ![p].pc = "executed", ![p].pending = matched]
        /\ UNCHANGED <<public_keys, next_key_id, events, req, resp, db_fault,
                       rows_affected, picked, prev, obs, init_keys>>

\* The statement fails after it removed some part of the match.
ExecFail(p) ==
    LET matched == Matching(Visible(public_keys, txn), txn[p].user,
                            Ss58Decode(txn[p].account))
    IN  /\ txn[p].pc = "begun"
        /\ matched \cap LockedByOthers(p) = {}
        /\ \E part \in PendingChoices(matched, "exec") :
              txn' = [txn EXCEPT ![p].pc = "failed", ![p].pending = part,
                                 ![p].fault = "exec"]
        /\ UNCHANGED <<public_keys, next_key_id, events, req, resp, db_fault,
                       rows_affected, picked, prev, obs, init_keys>>

\* The closure returned Err: the transaction is rolled back.
Rollback(p) ==
    /\ txn[p].pc = "failed"
    /\ public_keys' = TxnOutcome(public_keys, txn[p].pending, txn[p].fault)
    /\ txn' = [txn EXCEPT ![p].pc = "done", ![p].pending = {},
                          ![p].result = DeleteResult(txn[p].fault, 0)]
    /\ UNCHANGED <<next_key_id, events, req, resp, db_fault,
                   rows_affected, picked, prev, obs, init_keys>>

\* The closure returned Ok: the transaction commits, or the commit fails.
Commit(p, fault) ==
    /\ txn[p].pc = "executed"
    /\ public_keys' = TxnOutcome(public_keys, txn[p].pending, fault)
    /\ txn' = [txn EXCEPT ![p].pc = "done", ![p].pending = {}, ![p].fault = fault,
                          ![p].result = DeleteResult(fault, Cardinality(txn[p].pending))]
    /\ UNCHANGED <<next_key_id, events, req, resp, db_fault,
                   rows_affected, picked, prev, obs, init_keys>>

\* GET /keys of another request running meanwhile.
ReadKeys(user) ==
    /\ obs' = [kind |-> "list", user |-> user, account |-> Ss58Encode("-"),
               body |-> List(Visible(public_keys, txn), user), committed |-> Committed]
    /\ UNCHANGED <<public_keys, next_key_id, events, req, resp, db_fault,
                   rows_affected, picked, prev, txn, init_keys>>

\* GET /contracts/events/{account} of another request running meanwhile.
ReadEvents(account) ==
    /\ \E s \in EventsQuery(events, Ss58Decode(account)) :
          obs' = [kind |-> "events", user |-> 0, account |-> account,
                  body |-> [i \in 1..Len(s) |-> ToContractEvent(s[i])],
                  committed |-> Committed]
    /\ UNCHANGED <<public_keys, next_key_id, events, req, resp, db_fault,
                   rows_affected, picked, prev, txn, init_keys>>

\* The public_key tables of up to MaxInitKeys rows, ids in insertion order.
InitTables ==
    {{[id |-> i, user_id |-> s[i][1], address |-> s[i][2]] : i \in DOMAIN s} :
        s \in UNION {[1..n -> UserIds \X Addresses] : n \in 0..MaxInitKeys}}

\* The event table of the tests' create_test_env.
TestEvents ==
    {[id |-> 1, account |-> Contract1, block_timestamp |-> 0,
      body |-> "\"Instantiation\""]}

InitConcurrent ==
    /\ public_keys \in InitTables
    /\ init_keys = public_keys
    /\ next_key_id = Cardinality(public_keys) + 1
    /\ events = TestEvents
    /\ req = NoReq
    /\ resp = NoResp
    /\ db_fault = "none"
    /\ rows_affected = 0
    /\ picked = <<>>
    /\ prev = NoPrev
    /\ txn = [p \in Procs |-> NoTxn]
    /\ obs = NoObs

NextConcurrent ==
    \/ \E p \in Procs, u \in UserIds, a \in Addresses : Begin(p, u, Ss58Encode(a))
    \/ \E p \in Procs, u \in UserIds, a \in Addresses : BeginFail(p, u, Ss58Encode(a))
    \/ \E p \in Procs : Exec(p)
    \/ \E p \in Procs : ExecFail(p)
    \/ \E p \in Procs : Rollback(p)
    \/ \E p \in Procs, f \in {"none", "commit"} : Commit(p, f)
    \/ \E u \in UserIds : ReadKeys(u)
    \/ \E a \in Accounts : ReadEvents(Ss58Encode(a))

SpecConcurrent == InitConcurrent /\ [][NextConcurrent]_vars

-----------------------------------------------------------------------------
(* Properties of DELETE /keys, checked under Spec *)

DeleteOf(r) == [user |-> r.user, addr |-> Ss58Decode(r.account)]
OkEmpty == [result |-> "Ok", status |-> 200, body |-> <<>>]
ListedAddresses(rows, user) == {List(rows, user)[i].address : i \in DOMAIN List(rows, user)}

\* C1: a Delete issued by a user, whatever its outcome, leaves every row of
\* every other user in place; a row only ever disappears in a Delete issued by
\* its own user for its own address.
C1_CrossUserIsolation ==
    [][ /\ \A r \in public_keys :
              (req'.op = "delete" /\ req'.user # r.user_id) => r \in public_keys'
        /\ \A r \in public_keys \ public_keys' :
              /\ req'.op = "delete"
              /\ DeleteOf(req') = [user |-> r.user_id, addr |-> r.address] ]_vars

\* C1 witness: user U2 has deleted its own link to address A while another
\* user's row for the same address A is still stored.
C1_Witness ==
    /\ req.op = "delete" /\ resp.status = 200 /\ rows_affected > 0
    /\ \E r \in public_keys : r.address = Ss58Decode(req.account) /\ r.user_id # req.user

\* C2: a successful Delete(U, A) removes exactly the rows with user U and
\* address A: none of them remains, List(U) no longer shows A, and every other
\* row is as before.
C2_DeleteRemovesExactlyMatching ==
    [][ (req'.op = "delete" /\ resp'.result = "Ok") =>
            LET d == DeleteOf(req')
            IN  /\ public_keys' =
                      {r \in public_keys : ~(r.user_id = d.user /\ r.address = d.addr)}
                /\ ~ \E r \in public_keys' : r.user_id = d.user /\ r.address = d.addr
                /\ req'.account \notin ListedAddresses(public_keys', d.user) ]_vars

\* C2 witness: a successful delete removed rows while the same user keeps
\* another address and another user keeps a row.
C2_Witness ==
    /\ req.op = "delete" /\ resp.result = "Ok" /\ rows_affected > 0
    /\ \E r \in public_keys : r.user_id = req.user
    /\ \E r \in public_keys : r.user_id # req.user

\* C3: Delete(U, A) with no row (U, A) stored, storage working, answers 200
\* with an empty body, the very response of a delete that removed rows, and
\* leaves the stored rows, hence List(U), as they were.
C3_DeleteUnlinkedSucceeds ==
    [][ /\ (req'.op = "delete" /\ db_fault' = "none") => resp' = OkEmpty
        /\ ( /\ req'.op = "delete" /\ db_fault' = "none"
             /\ ~ \E r \in public_keys :
                    r.user_id = req'.user /\ r.address = Ss58Decode(req'.account) )
           => /\ public_keys' = public_keys
              /\ List(public_keys', req'.user) = List(public_keys, req'.user) ]_vars

\* C3 witness: a delete matched nothing, answered 200 and the user still has keys.
C3_Witness ==
    /\ req.op = "delete" /\ db_fault = "none" /\ rows_affected = 0
    /\ resp = OkEmpty
    /\ List(public_keys, req.user) # <<>>

\* C4: a Delete(U, A) that directly follows a successful Delete(U, A) succeeds
\* too, storage working, and changes no stored row.
C4_DeleteIdempotent ==
    [][ ( /\ req'.op = "delete" /\ prev'.req = req' /\ prev'.status = 200
          /\ db_fault' = "none" )
        => (resp' = OkEmpty /\ public_keys' = public_keys) ]_vars

\* C4 witness: the second of two consecutive successful Delete(U, A), the first
\* of which removed a linked address.
C4_Witness ==
    /\ req.op = "delete" /\ prev.req = req
    /\ prev.status = 200 /\ prev.rows_affected > 0
    /\ resp.status = 200 /\ rows_affected = 0

\* C5: a Delete in which storage fails (at begin, in the statement or at commit)
\* answers DatabaseError and leaves the stored rows exactly as they were.
C5_FailureRollsBack ==
    [][ (req'.op = "delete" /\ db_fault' # "none") =>
            /\ resp'.result = "DatabaseError" /\ resp'.status = 500
            /\ public_keys' = public_keys ]_vars

\* C5 witness: the commit of a delete that had matched rows failed, and the
\* rows are still stored.
C5_Witness ==
    /\ req.op = "delete" /\ db_fault = "commit" /\ rows_affected > 0
    /\ resp.result = "DatabaseError"
    /\ \E r \in public_keys : r.user_id = req.user /\ r.address = Ss58Decode(req.account)

-----------------------------------------------------------------------------
(* Properties of GET /contracts/events/{account}, checked under SpecEvents *)

EventsOf(account) == {e \in events : e.account = Ss58Decode(account)}
Range(f) == {f[i] : i \in DOMAIN f}
OkEvents == req.op = "events" /\ resp.result = "Ok"
DistinctTimestamps(S) ==
    \A x \in S, y \in S : x # y => x.block_timestamp # y.block_timestamp

\* C6: a successful Events(account) returns exactly min(n, 25) items, n the
\* number of stored events of the account; each item is the body and the second
\* of a different stored event of that account, and no event left out is
\* strictly more recent than one returned.
C6_Bounding ==
    OkEvents =>
        LET mine == EventsOf(req.account)
        IN  /\ Len(resp.body) = Min(Cardinality(mine), 25)
            /\ Len(picked) = Len(resp.body)
            /\ \A i \in DOMAIN picked :
                  /\ picked[i] \in mine
                  /\ resp.body[i].body = picked[i].body
                  /\ resp.body[i].timestamp = picked[i].block_timestamp \div TicksPerSecond
            /\ \A i \in DOMAIN picked, j \in DOMAIN picked : i # j => picked[i] # picked[j]
            /\ \A e \in mine \ Range(picked) : \A i \in DOMAIN picked :
                  e.block_timestamp <= picked[i].block_timestamp

\* C6 witness: a successful query of an account with more than 25 events, one
\* of those left out being strictly older than all those returned.
C6_Witness ==
    /\ OkEvents
    /\ Cardinality(EventsOf(req.account)) > 25
    /\ Len(resp.body) = 25
    /\ \E e \in EventsOf(req.account) \ Range(picked) :
          \A i \in DOMAIN picked : e.block_timestamp < picked[i].block_timestamp

\* C7: when the stored events of the account have pairwise distinct
\* block_timestamp values, whatever order they were inserted in, Events(account)
\* returns them in strictly descending block_timestamp order.
C7_Ordering ==
    (OkEvents /\ DistinctTimestamps(EventsOf(req.account))) =>
        \A i \in DOMAIN picked, j \in DOMAIN picked :
            i < j => picked[i].block_timestamp > picked[j].block_timestamp

\* C7 witness: at least three events with distinct timestamps were returned,
\* inserted neither in ascending nor in descending timestamp order.
C7_Witness ==
    /\ OkEvents /\ DistinctTimestamps(EventsOf(req.account))
    /\ Len(picked) >= 3
    /\ \E i \in DOMAIN picked, j \in DOMAIN picked : i < j /\ picked[i].id < picked[j].id
    /\ \E i \in DOMAIN picked, j \in DOMAIN picked : i < j /\ picked[i].id > picked[j].id

\* C9: two Events(account) calls on the same stored events, events of equal
\* block_timestamp included, return the same sequence.
C9_DeterministicOrder ==
    [][ ( /\ req.op = "events" /\ req' = req
          /\ resp.result = "Ok" /\ resp'.result = "Ok"
          /\ events' = events )
        => resp'.body = resp.body ]_vars

\* C10: Events(account) for an account with no stored event, storage working,
\* answers 200 with the empty sequence as its body: no error, no not-found.
C10_EmptyCase ==
    (req.op = "events" /\ db_fault = "none" /\ EventsOf(req.account) = {}) =>
        resp = [result |-> "Ok", status |-> 200, body |-> <<>>]

\* C10 witness: an account without events was queried while another account
\* has events, and the answer was 200 with an empty body.
C10_Witness ==
    /\ req.op = "events" /\ db_fault = "none"
    /\ EventsOf(req.account) = {} /\ events # {}
    /\ resp.status = 200 /\ resp.body = <<>>

-----------------------------------------------------------------------------
(* Properties of concurrent requests, checked under SpecConcurrent *)

MatchedInitially(p) == {r \in init_keys : r.user_id = txn[p].user
                                          /\ r.address = Ss58Decode(txn[p].account)}
AfterCommitsOf(D) == init_keys \ UNION {MatchedInitially(p) : p \in D}
Finished(p) == txn[p].pc = "done"

\* C8: under every interleaving each Delete takes effect at once, at its
\* commit: the stored rows are the initial rows minus all rows matched by the
\* deletes committed so far; a List read returns exactly that for the deletes
\* committed before it, whatever the open transactions hold; an Events read is
\* not affected; and a Delete that meets no storage failure ends with success,
\* so two concurrent Delete(U, A) both succeed and leave the initial rows minus
\* the rows (U, A).
C8_AtomicDeletes ==
    /\ public_keys = AfterCommitsOf(Committed)
    /\ obs.kind = "list" =>
          obs.body = List(AfterCommitsOf(obs.committed), obs.user)
    /\ obs.kind = "events" =>
          \E s \in EventsQuery(events, Ss58Decode(obs.account)) :
              obs.body = [i \in 1..Len(s) |-> ToContractEvent(s[i])]
    /\ \A p \in Procs :
          Finished(p) => (txn[p].result = "Ok" <=> txn[p].fault = "none")
    /\ \A p \in Procs, q \in Procs :
          ( /\ p # q /\ Finished(p) /\ Finished(q)
            /\ txn[p].fault = "none" /\ txn[q].fault = "none"
            /\ txn[p].user = txn[q].user /\ txn[p].account = txn[q].account )
          => /\ txn[p].result = "Ok" /\ txn[q].result = "Ok"
             /\ ~ \E r \in public_keys : r \in MatchedInitially(p)

\* C8 witness: two Delete(U, A) of the same user and address, the second begun
\* while the first was open, have both ended with success; they matched two
\* rows, and a List(U) made after the first commit alone saw none of the two.
C8_Witness ==
    \E p \in Procs, q \in Procs :
        /\ p # q /\ Finished(p) /\ Finished(q)
        /\ txn[p].result = "Ok" /\ txn[q].result = "Ok"
        /\ txn[p].user = txn[q].user /\ txn[p].account = txn[q].account
        /\ p \in txn[q].overlap
        /\ Cardinality(MatchedInitially(p)) = 2
        /\ obs.kind = "list" /\ obs.user = txn[p].user
        /\ Cardinality(obs.committed) = 1
        /\ obs.body = <<>>

====
